---- MODULE Spec2Model ----
(***************************************************************************)
(* ShellTask (src/prefect/tasks/shell.py): a task that runs a shell        *)
(* command in a subprocess and returns its combined output, or raises the  *)
(* FAIL signal when the exit code is not 0.                                *)
(*                                                                         *)
(* Modelling conventions                                                   *)
(*   - A Python value that may be None is a sequence of length <= 1:       *)
(*     None is <<>>, a present value v is <<v>>.                           *)
(*   - A command string is the sequence of its words; string concatenation *)
(*     is \o.  The shell splits it at its control operators.               *)
(*   - A dict of environment variables is a function from its keys.        *)
(*   - Bytes printed by the subprocess are a sequence of lines.            *)
(***************************************************************************)
EXTENDS Integers, Sequences, FiniteSets, TLC

\* Number of invocations of run() on the one configured task; they may be
\* interleaved in any order (separate threads of the calling process).
NumCalls == 2

Calls == 1..NumCalls

----------------------------------------------------------------------------
(* Optional values *)

None == <<>>

Some(v) == <<v>>

----------------------------------------------------------------------------
(* Input domains *)

EmptyEnv == [k \in {} |-> ""]

\* The environment the calling process was started with.
ParentEnvs ==
    { [k \in {"FOO", "HOME"} |-> IF k = "FOO" THEN "base" ELSE "/root"] }

\* Override mappings a caller may pass to run(): an empty dict, and one that
\* replaces an inherited variable and adds a new one.
CallEnvs ==
    { EmptyEnv,
      [k \in {"FOO", "BAR"} |-> IF k = "FOO" THEN "bar" ELSE "x"] }

\* Override mappings the constructor may be given.
InitEnvs == { [k \in {"FOO"} |-> "baz"] }

\* Commands: a simple command whose output depends on the environment, a
\* failing command, and a list of two commands whose output depends on the
\* working directory and the environment.
Commands ==
    { <<"echo", "$FOO">>,
      <<"exit", "3">>,
      <<"pwd", ";", "echo", "$FOO">> }

InitCommands == { <<"echo", "$FOO">> }

Dirs == {"/tmp", "/nonexistent"}

\* The file system the subprocess sees.
ExistingDirs == {"/tmp", "/home"}

ParentCwd == "/home"

Shells == {"bash", "nosuchshell"}

\* The interpreters an exec of the argument vector can find.
InstalledShells == {"bash"}

----------------------------------------------------------------------------
(* The shell: what  shell -c command  does with the command string *)

ControlOps == {"&&", "||", ";"}

\* Index of the first control operator of words, Len(words) + 1 when none.
FirstOp(words) ==
    IF \E k \in 1..Len(words) : words[k] \in ControlOps
    THEN CHOOSE k \in 1..Len(words) :
            /\ words[k] \in ControlOps
            /\ \A j \in 1..(k - 1) : words[j] \notin ControlOps
    ELSE Len(words) + 1

\* A word of the form $NAME expands to the variable's value, to the empty
\* string when the variable is unset.
Expand(word, env) ==
    IF word = "$FOO"
    THEN IF "FOO" \in DOMAIN env THEN env["FOO"] ELSE ""
    ELSE word

ExitArg(word) == IF word = "3" THEN 3 ELSE IF word = "0" THEN 0 ELSE 2

\* The state of a running shell: status of the last command run, the bytes
\* written to stdout and stderr (one stream), the working directory, whether
\* the shell has exited, the simple commands it has run so far, and whether
\* a cd among them failed.
ShellStart ==
    [ status |-> 0, out |-> <<>>, cwd |-> ParentCwd, halted |-> FALSE,
      ran |-> <<>>, cdfailed |-> FALSE ]

\* One simple command (a builtin of the shell, or an unknown name).
RunSimple(simple, env, st) ==
    LET done == [st EXCEPT !.ran = Append(@, simple)] IN
    IF simple = <<>> THEN st
    ELSE IF simple[1] = "cd" THEN
        IF Len(simple) = 2 /\ simple[2] \in ExistingDirs
        THEN [done EXCEPT !.status = 0, !.cwd = simple[2]]
        ELSE [done EXCEPT !.status = 1, !.cdfailed = TRUE,
                          !.out = Append(@, "cd: No such file or directory")]
    ELSE IF simple[1] = "pwd" THEN
        [done EXCEPT !.status = 0, !.out = Append(@, st.cwd)]
    ELSE IF simple[1] = "echo" THEN
        [done EXCEPT !.status = 0,
                     !.out = Append(@, IF Len(simple) >= 2
                                       THEN Expand(simple[2], env) ELSE "")]
    ELSE IF simple[1] = "exit" THEN
        [done EXCEPT !.status = IF Len(simple) >= 2
                                THEN ExitArg(simple[2]) ELSE st.status,
                     !.halted = TRUE]
    ELSE IF simple[1] = "false" THEN
        [done EXCEPT !.status = 1]
    ELSE
        [done EXCEPT !.status = 127,
                     !.out = Append(@, "command not found")]

\* A list of simple commands joined by && || and ; is run left to right:
\* the command after && runs when the last status is 0, the one after ||
\* when it is not, the one after ; always.  op is the operator before words.
RECURSIVE ShellEval(_, _, _, _)
ShellEval(words, env, st, op) ==
    IF words = <<>> THEN st
    ELSE
        LET k == FirstOp(words)
            simple == SubSeq(words, 1, k - 1)
            rest == SubSeq(words, k + 1, Len(words))
            nextop == IF k <= Len(words) THEN words[k] ELSE ";"
            runs == /\ ~st.halted
                    /\ \/ op = ";"
                       \/ op = "&&" /\ st.status = 0
                       \/ op = "||" /\ st.status # 0
        IN ShellEval(rest, env, IF runs THEN RunSimple(simple, env, st) ELSE st,
                     nextop)

\* The subprocess  argv = [shell, "-c", command]  run to its exit in env.
Subprocess(argv, env) == ShellEval(argv[3], env, ShellStart, ";")

----------------------------------------------------------------------------
(* run(): the pure steps *)

\* The decorator naming the command only: env has no fallback.
DefaultedCommandOnly == {"command"}

\* @defaults_from_attrs("command", "env"): the parameters of run that fall
\* back to the attribute of the same name.
DefaultedAttrs == {"command", "env"}

\* prefect.utilities.tasks.defaults_from_attrs: a parameter the call leaves
\* out takes the task's attribute of that name.
Resolve(attr, callValue, task) ==
    IF attr \in DefaultedAttrs /\ callValue = None
    THEN task[attr]
    ELSE callValue

\* if self.cd is not None: command = "cd {} && ".format(self.cd) + command
ComposeCommand(cd, command) ==
    IF cd # None THEN <<"cd", cd[1], "&&">> \o command ELSE command

\* env or {}
OrEmpty(env) == IF env = None \/ env[1] = EmptyEnv THEN EmptyEnv ELSE env[1]

\* d.update(other), as the new value of d
Update(d, other) ==
    [k \in DOMAIN d \cup DOMAIN other |->
        IF k \in DOMAIN other THEN other[k] ELSE d[k]]

\* The update turned round: the inherited variables win over the overrides.
ComposeEnvInheritedWins(environ, env) == Update(OrEmpty(env), environ)

\* current_env = os.environ.copy(); current_env.update(env or {})
ComposeEnv(environ, env) == Update(environ, OrEmpty(env))

\* "Command failed with exit code {0}: {1}".format(returncode, output)
Message(template, code, output) ==
    [template |-> template, code |-> code, output |-> output]

NoMessage == Message("", 0, <<>>)

----------------------------------------------------------------------------
(* State *)

VARIABLES
    self,        \* the task's attributes: command, cd, env, shell (__init__)
    os_environ,  \* the calling process's environment, os.environ
    inherited,   \* the environment the calling process was started with
    pc,          \* per invocation: where it is in its life
    args,        \* per invocation: the objects the caller passed to run
    frame,       \* per invocation: the locals of run while it executes
    proc,        \* per invocation: the subprocess check_output started
    spawns,      \* per invocation: how many subprocesses it has started
    outcome      \* per invocation: what run returned or raised

vars == <<self, os_environ, inherited, pc, args, frame, proc, spawns, outcome>>

Terminal == {"Succeeded", "FailedExitCode", "FailedConfig", "FailedSpawn"}

NoArgs == [command |-> None, env |-> None]

\* No activation of run: nothing is held.
NoFrame ==
    [command |-> None, env |-> None, current_env |-> None, composed |-> FALSE]

NoProc ==
    [state |-> "none", argv |-> <<>>, env |-> EmptyEnv, returncode |-> 0,
     output |-> <<>>, ran |-> <<>>, cdfailed |-> FALSE]

NoOutcome == [kind |-> "none", value |-> <<>>, exc |-> "", msg |-> NoMessage]

Returned(out) == [NoOutcome EXCEPT !.kind = "return", !.value = out]

Raised(exc, msg) == [NoOutcome EXCEPT !.kind = "raise", !.exc = exc, !.msg = msg]

Opt(S) == {None} \cup {Some(x) : x \in S}

\* ShellTask.__init__: the attributes are the constructor's arguments.
Init ==
    /\ self \in [command : Opt(InitCommands), cd : Opt(Dirs),
                 env : Opt(InitEnvs), shell : Shells]
    /\ os_environ \in ParentEnvs
    /\ inherited = os_environ
    /\ pc = [i \in Calls |-> "Idle"]
    /\ args = [i \in Calls |-> NoArgs]
    /\ frame = [i \in Calls |-> NoFrame]
    /\ proc = [i \in Calls |-> NoProc]
    /\ spawns = [i \in Calls |-> 0]
    /\ outcome = [i \in Calls |-> NoOutcome]

\* current_env = os.environ.copy(); current_env.update(env or {}), with the
\* copy left out: the update is applied to os.environ itself.
ComposeAliased(i) ==
    /\ pc[i] = "Composing"
    /\ ~frame[i].composed
    /\ os_environ' = Update(os_environ, OrEmpty(frame[i].env))
    /\ frame' = [frame EXCEPT
            ![i].command = Some(ComposeCommand(self.cd, frame[i].command[1])),
            ![i].current_env = Some(os_environ'),
            ![i].composed = TRUE]
    /\ UNCHANGED <<self, inherited, pc, args, proc, spawns, outcome>>

\* Lines 72-76 with the prefixed command stored on the task as well.
ComposeStoring(i) ==
    /\ pc[i] = "Composing"
    /\ ~frame[i].composed
    /\ frame' = [frame EXCEPT
            ![i].command = Some(ComposeCommand(self.cd, frame[i].command[1])),
            ![i].current_env = Some(ComposeEnv(os_environ, frame[i].env)),
            ![i].composed = TRUE]
    /\ self' = [self EXCEPT !.command = frame'[i].command]
    /\ UNCHANGED <<os_environ, inherited, pc, args, proc, spawns, outcome>>

\* run() entered with the required-argument check left out.
CallUnchecked(i, command, env) ==
    /\ pc[i] = "Idle"
    /\ i > 1 => pc[i - 1] # "Idle"
    /\ args' = [args EXCEPT ![i] = [command |-> command, env |-> env]]
    /\ LET c == Resolve("command", command, self)
       IN frame' = [frame EXCEPT
            ![i].command = IF c = None THEN Some(<<>>) ELSE c,
            ![i].env = Resolve("env", env, self)]
    /\ pc' = [pc EXCEPT ![i] = "Composing"]
    /\ UNCHANGED <<self, os_environ, inherited, proc, spawns, outcome>>

\* The caller invokes run(command, env); the decorator fills in the defaults;
\* lines 69-70: a command that is still None raises TypeError.
Call(i, command, env) ==
    /\ pc[i] = "Idle"
    /\ i > 1 => pc[i - 1] # "Idle"
    /\ args' = [args EXCEPT ![i] = [command |-> command, env |-> env]]
    /\ LET c == Resolve("command", command, self)
           e == Resolve("env", env, self)
       IN IF c = None
          THEN /\ pc' = [pc EXCEPT ![i] = "FailedConfig"]
               /\ outcome' = [outcome EXCEPT ![i] =
                    Raised("TypeError",
                           Message("run() missing required argument: 'command'",
                                   0, <<>>))]
               /\ UNCHANGED frame
          ELSE /\ pc' = [pc EXCEPT ![i] = "Composing"]
               /\ frame' = [frame EXCEPT ![i].command = c, ![i].env = e]
               /\ UNCHANGED outcome
    /\ UNCHANGED <<self, os_environ, inherited, proc, spawns>>

\* Lines 72-76: the cd prefix, and the child's environment.
Compose(i) ==
    /\ pc[i] = "Composing"
    /\ ~frame[i].composed
    /\ frame' = [frame EXCEPT
            ![i].command = Some(ComposeCommand(self.cd, frame[i].command[1])),
            ![i].current_env = Some(ComposeEnv(os_environ, frame[i].env)),
            ![i].composed = TRUE]
    /\ UNCHANGED <<self, os_environ, inherited, pc, args, proc, spawns, outcome>>

\* The child process of argv in env, just started.
Started(argv, env) == [NoProc EXCEPT !.state = "running", !.argv = argv, !.env = env]

\* What Popen raises when argv[0] cannot be executed.
SpawnError ==
    Raised("FileNotFoundError", Message("[Errno 2] No such file or directory", 2, <<>>))

\* The spawn with every exception caught and dropped: a failed spawn returns
\* empty output.
SpawnSwallowed(i) ==
    /\ pc[i] = "Composing"
    /\ frame[i].composed
    /\ IF self.shell \in InstalledShells
       THEN /\ proc' = [proc EXCEPT ![i] =
                    Started(<<self.shell, "-c", frame[i].command[1]>>,
                            frame[i].current_env[1])]
            /\ spawns' = [spawns EXCEPT ![i] = @ + 1]
            /\ pc' = [pc EXCEPT ![i] = "Spawned"]
            /\ UNCHANGED <<frame, outcome>>
       ELSE /\ pc' = [pc EXCEPT ![i] = "Succeeded"]
            /\ outcome' = [outcome EXCEPT ![i] = Returned(<<>>)]
            /\ frame' = [frame EXCEPT ![i] = NoFrame]
            /\ UNCHANGED <<proc, spawns>>
    /\ UNCHANGED <<self, os_environ, inherited, args>>

\* The spawn with Popen in place of check_output: run returns at once and
\* leaves the child running.
SpawnDetached(i) ==
    /\ pc[i] = "Composing"
    /\ frame[i].composed
    /\ IF self.shell \in InstalledShells
       THEN /\ proc' = [proc EXCEPT ![i] =
                    Started(<<self.shell, "-c", frame[i].command[1]>>,
                            frame[i].current_env[1])]
            /\ spawns' = [spawns EXCEPT ![i] = @ + 1]
            /\ pc' = [pc EXCEPT ![i] = "Succeeded"]
            /\ outcome' = [outcome EXCEPT ![i] = Returned(<<>>)]
       ELSE /\ pc' = [pc EXCEPT ![i] = "FailedSpawn"]
            /\ outcome' = [outcome EXCEPT ![i] = SpawnError]
            /\ UNCHANGED <<proc, spawns>>
    /\ frame' = [frame EXCEPT ![i] = NoFrame]
    /\ UNCHANGED <<self, os_environ, inherited, args>>

\* Lines 78-80, the start of check_output: the child process is created with
\* argv [self.shell, "-c", command] and env current_env.  When the shell
\* cannot be executed Popen raises OSError, which no except clause of run
\* catches: it leaves run.
Spawn(i) ==
    /\ pc[i] = "Composing"
    /\ frame[i].composed
    /\ IF self.shell \in InstalledShells
       THEN /\ proc' = [proc EXCEPT ![i] =
                    Started(<<self.shell, "-c", frame[i].command[1]>>,
                            frame[i].current_env[1])]
            /\ spawns' = [spawns EXCEPT ![i] = @ + 1]
            /\ pc' = [pc EXCEPT ![i] = "Spawned"]
            /\ UNCHANGED <<frame, outcome>>
       ELSE /\ pc' = [pc EXCEPT ![i] = "FailedSpawn"]
            /\ outcome' = [outcome EXCEPT ![i] = SpawnError]
            /\ frame' = [frame EXCEPT ![i] = NoFrame]
            /\ UNCHANGED <<proc, spawns>>
    /\ UNCHANGED <<self, os_environ, inherited, args>>

\* The child process of p after its exit with final shell state st: waited
\* for, its output read to the end, its pipe closed.
Exited(p, st) ==
    [p EXCEPT !.state = "exited", !.returncode = st.status,
              !.output = st.out, !.ran = st.ran, !.cdfailed = st.cdfailed]

\* The wait with the exit code not looked at (subprocess.run without check):
\* the output is returned whatever the exit code.
FinishUnchecked(i) ==
    /\ pc[i] = "Spawned"
    /\ LET st == Subprocess(proc[i].argv, proc[i].env)
       IN /\ proc' = [proc EXCEPT ![i] = Exited(proc[i], st)]
          /\ pc' = [pc EXCEPT ![i] = "Succeeded"]
          /\ outcome' = [outcome EXCEPT ![i] = Returned(st.out)]
    /\ frame' = [frame EXCEPT ![i] = NoFrame]
    /\ UNCHANGED <<self, os_environ, inherited, args, spawns>>

\* The wait with a retry: after a non-zero exit the command is composed and
\* spawned again.
FinishRetrying(i) ==
    /\ pc[i] = "Spawned"
    /\ LET st == Subprocess(proc[i].argv, proc[i].env)
       IN /\ proc' = [proc EXCEPT ![i] = Exited(proc[i], st)]
          /\ IF st.status = 0
             THEN /\ pc' = [pc EXCEPT ![i] = "Succeeded"]
                  /\ outcome' = [outcome EXCEPT ![i] = Returned(st.out)]
                  /\ frame' = [frame EXCEPT ![i] = NoFrame]
             ELSE /\ pc' = [pc EXCEPT ![i] = "Composing"]
                  /\ UNCHANGED <<frame, outcome>>
    /\ UNCHANGED <<self, os_environ, inherited, args, spawns>>

\* Lines 78-86, the rest of check_output: it blocks until the child has
\* exited and its combined stdout and stderr are read to the end.  Exit code
\* 0: run returns the output.  Otherwise CalledProcessError is caught and
\* FAIL is raised with the formatted message.
Finish(i) ==
    /\ pc[i] = "Spawned"
    /\ LET st == Subprocess(proc[i].argv, proc[i].env)
       IN /\ proc' = [proc EXCEPT ![i] = Exited(proc[i], st)]
          /\ IF st.status = 0
             THEN /\ pc' = [pc EXCEPT ![i] = "Succeeded"]
                  /\ outcome' = [outcome EXCEPT ![i] = Returned(st.out)]
             ELSE /\ pc' = [pc EXCEPT ![i] = "FailedExitCode"]
                  /\ outcome' = [outcome EXCEPT ![i] =
                        Raised("FAIL",
                               Message("Command failed with exit code {0}: {1}",
                                       st.status, st.out))]
    /\ frame' = [frame EXCEPT ![i] = NoFrame]
    /\ UNCHANGED <<self, os_environ, inherited, args, spawns>>

Next ==
    \E i \in Calls :
        \/ \E command \in Opt(Commands), env \in Opt(CallEnvs) :
                Call(i, command, env)
        \/ Compose(i)
        \/ Spawn(i)
        \/ Finish(i)

Spec == Init /\ [][Next]_vars

----------------------------------------------------------------------------
(* run() from call to return as one sequential computation: what an       *)
(* invocation with arguments a does when nothing else runs.                *)

RunAlone(task, environ, a) ==
    LET c == Resolve("command", a.command, task)
        e == Resolve("env", a.env, task)
        argv == <<task.shell, "-c", ComposeCommand(task.cd, c[1])>>
        env == ComposeEnv(environ, e)
        st == Subprocess(argv, env)
    IN  IF c = None
        THEN [argv |-> <<>>, env |-> EmptyEnv,
              outcome |-> Raised("TypeError",
                    Message("run() missing required argument: 'command'", 0, <<>>))]
        ELSE IF task.shell \notin InstalledShells
        THEN [argv |-> <<>>, env |-> EmptyEnv, outcome |-> SpawnError]
        ELSE [argv |-> argv, env |-> env,
              outcome |-> IF st.status = 0
                          THEN Returned(st.out)
                          ELSE Raised("FAIL",
                                Message("Command failed with exit code {0}: {1}",
                                        st.status, st.out))]

----------------------------------------------------------------------------
(* Properties *)

\* The value a parameter of run takes: the call's when given, else the task's.
Effective(i, attr) ==
    IF args[i][attr] # None THEN args[i][attr] ELSE self[attr]

HasProc(i) == proc[i].state # "none"

\* C1: once the subprocess of an invocation has exited, exit code 0 means run
\* returned exactly the captured output and raised nothing; any other exit
\* code means run raised FAIL whose message carries that exit code and that
\* output, and returned no value.
C1_ExitCodeDecidesOutcome ==
    \A i \in Calls :
        proc[i].state = "exited" =>
            IF proc[i].returncode = 0
            THEN /\ pc[i] = "Succeeded"
                 /\ outcome[i] = Returned(proc[i].output)
            ELSE /\ pc[i] = "FailedExitCode"
                 /\ outcome[i].kind = "raise"
                 /\ outcome[i].exc = "FAIL"
                 /\ outcome[i].value = <<>>
                 /\ outcome[i].msg =
                        Message("Command failed with exit code {0}: {1}",
                                proc[i].returncode, proc[i].output)

C1_Witness ==
    \E i, j \in Calls :
        /\ pc[i] = "FailedExitCode" /\ proc[i].returncode = 3
        /\ pc[j] = "Succeeded" /\ proc[j].output # <<>>

\* C2: an invocation with no command at the call and none on the task ends in
\* TypeError, which is not the FAIL of a non-zero exit, and spawns nothing.
C2_MissingCommandSpawnsNothing ==
    \A i \in Calls :
        (pc[i] # "Idle" /\ args[i].command = None /\ self.command = None) =>
            /\ pc[i] = "FailedConfig"
            /\ outcome[i].kind = "raise"
            /\ outcome[i].exc = "TypeError"
            /\ outcome[i].exc # "FAIL"
            /\ spawns[i] = 0
            /\ ~HasProc(i)

C2_Witness ==
    \E i \in Calls :
        /\ pc[i] = "FailedConfig"
        /\ args[i].command = None /\ self.command = None
        /\ args[i].env # None

\* C3: command and env each take the call's value when one is given, else
\* the task's, else None: run starts with these values, a missing command is
\* exactly the case that fails, and the subprocess is handed the command and
\* the overrides so resolved.
C3_CallValueWinsOverDefault ==
    \A i \in Calls :
        pc[i] # "Idle" =>
            LET c == Effective(i, "command")
                e == Effective(i, "env")
            IN  /\ (c = None) <=> (pc[i] = "FailedConfig")
                /\ (pc[i] = "Composing" /\ ~frame[i].composed) =>
                        /\ frame[i].command = c
                        /\ frame[i].env = e
                /\ HasProc(i) =>
                        /\ proc[i].argv[3] = ComposeCommand(self.cd, c[1])
                        /\ \A k \in DOMAIN OrEmpty(e) :
                                /\ k \in DOMAIN proc[i].env
                                /\ proc[i].env[k] = e[1][k]
                        /\ DOMAIN proc[i].env \subseteq
                                DOMAIN inherited \cup DOMAIN OrEmpty(e)

C3_Witness ==
    \E i, j \in Calls :
        /\ self.env # None /\ self.command # None
        /\ args[i].env = Some(EmptyEnv) /\ args[i].command # None
        /\ args[i].command # self.command /\ HasProc(i)
        /\ args[j].env = None /\ args[j].command = None /\ HasProc(j)

\* C4: the environment handed to the subprocess has exactly the keys of the
\* inherited environment and of the resolved overrides, every override's
\* value, and the inherited value of every other key.
C4_ChildEnvIsInheritedPlusOverrides ==
    \A i \in Calls :
        HasProc(i) =>
            LET E == inherited
                O == OrEmpty(Effective(i, "env"))
                child == proc[i].env
            IN  /\ DOMAIN child = DOMAIN E \cup DOMAIN O
                /\ \A k \in DOMAIN O : child[k] = O[k]
                /\ \A k \in DOMAIN E \ DOMAIN O : child[k] = E[k]
                /\ O = EmptyEnv => child = E

C4_Witness ==
    \E i, j \in Calls :
        /\ HasProc(i) /\ args[i].env # None
        /\ DOMAIN args[i].env[1] \cap DOMAIN inherited # {}
        /\ DOMAIN args[i].env[1] \ DOMAIN inherited # {}
        /\ DOMAIN inherited \ DOMAIN args[i].env[1] # {}
        /\ HasProc(j) /\ Effective(j, "env") = None

\* C5: an invocation that tried to spawn a shell that cannot be executed ends
\* in the spawn failure, raised to the caller with no value returned; and the
\* only things run raises are TypeError (no command), FAIL (non-zero exit)
\* and that OSError.
C5_SpawnFailureIsRaised ==
    \A i \in Calls :
        /\ (self.shell \notin InstalledShells
                /\ pc[i] \notin {"Idle", "Composing", "FailedConfig"}) =>
                pc[i] = "FailedSpawn"
        /\ pc[i] = "FailedSpawn" =>
                /\ outcome[i].kind = "raise"
                /\ outcome[i].exc = "FileNotFoundError"
                /\ outcome[i].value = <<>>
                /\ ~HasProc(i)
        /\ outcome[i].kind = "raise" =>
                /\ outcome[i].exc \in {"TypeError", "FAIL", "FileNotFoundError"}
                /\ outcome[i].exc = "TypeError" <=> pc[i] = "FailedConfig"
                /\ outcome[i].exc = "FAIL" <=> pc[i] = "FailedExitCode"
                /\ outcome[i].exc = "FileNotFoundError" <=> pc[i] = "FailedSpawn"
        /\ outcome[i].kind = "return" <=> pc[i] = "Succeeded"
        /\ outcome[i].kind = "none" <=> pc[i] \notin Terminal

C5_Witness ==
    \E i \in Calls :
        /\ pc[i] = "FailedSpawn"
        /\ self.shell \notin InstalledShells
        /\ outcome[i].exc = "FileNotFoundError"

\* The steps of an invocation's life the specification's state machine names.
ClaimedEdges ==
    { <<"Idle", "Composing">>, <<"Idle", "FailedConfig">>,
      <<"Composing", "FailedConfig">>, <<"Composing", "Spawned">>,
      <<"Spawned", "Succeeded">>, <<"Spawned", "FailedExitCode">> }

\* From the first successful spawn on an invocation has one subprocess, before
\* it none.
OneSpawn(i) ==
    spawns[i] = IF pc[i] \in {"Spawned", "Succeeded", "FailedExitCode"}
                THEN 1 ELSE 0

LifecycleStep(edges) ==
    \A i \in Calls :
        /\ pc'[i] # pc[i] => <<pc[i], pc'[i]>> \in edges
        /\ OneSpawn(i)'

\* C6 as stated: every step of an invocation is one of Idle to Composing to
\* Spawned to Succeeded, FailedExitCode or FailedConfig; nothing leaves a
\* terminal state; one subprocess per invocation that reaches Spawned.
C6_LifecycleAsStated == [][LifecycleStep(ClaimedEdges)]_vars

\* C6, amended: the same, with a fourth terminal state FailedSpawn entered
\* from Composing when the shell cannot be executed.
C6_LifecycleWithSpawnFailure ==
    [][LifecycleStep(ClaimedEdges \cup {<<"Composing", "FailedSpawn">>})]_vars

C6_Witness ==
    /\ \A i \in Calls : pc[i] \in Terminal
    /\ \E i, j \in Calls :
        /\ pc[i] = "FailedExitCode" /\ spawns[i] = 1
        /\ pc[j] = "FailedConfig" /\ spawns[j] = 0

\* C7: however the invocations are interleaved, each hands its subprocess
\* the command and the environment, and ends with the outcome, that it has
\* when it runs alone in the environment the process started with; a variable
\* only another invocation overrides is not in its child environment.
C7_InterleavedAsAlone ==
    \A i \in Calls :
        LET alone == RunAlone(self, inherited, args[i])
        IN  /\ HasProc(i) =>
                /\ proc[i].argv = alone.argv
                /\ proc[i].env = alone.env
                /\ \A k \in DOMAIN proc[i].env :
                        k \in DOMAIN inherited \cup
                              DOMAIN OrEmpty(Effective(i, "env"))
            /\ pc[i] \in Terminal => outcome[i] = alone.outcome

C7_Witness ==
    \E i, j \in Calls :
        /\ pc[i] = "Spawned" /\ pc[j] = "Spawned"
        /\ Effective(i, "env") # None /\ Effective(j, "env") # None
        /\ DOMAIN Effective(i, "env")[1] \ DOMAIN proc[j].env # {}
        /\ proc[i].argv # proc[j].argv

\* C8: an invocation that has returned or raised holds nothing: its frame
\* (with the copy of the environment) is gone and its subprocess, if it had
\* one, has exited with its output read; so does one that has not started.
C8_NothingHeldAfterReturn ==
    \A i \in Calls :
        /\ pc[i] \in Terminal \cup {"Idle"} =>
                /\ frame[i] = NoFrame
                /\ proc[i].state # "running"
        /\ pc[i] = "Idle" => ~HasProc(i)
        /\ pc[i] \in {"Succeeded", "FailedExitCode"} =>
                /\ proc[i].state = "exited"
                /\ proc[i].output = Subprocess(proc[i].argv, proc[i].env).out
        /\ proc[i].state = "running" <=> pc[i] = "Spawned"

C8_Witness ==
    \E i, j, k \in Calls :
        /\ pc[i] = "Succeeded" /\ proc[i].state = "exited"
        /\ pc[j] = "FailedExitCode" /\ proc[j].state = "exited"
        /\ frame[i] = NoFrame /\ frame[j] = NoFrame
        /\ proc[k].output # <<>>

\* The simple commands of the caller's command the shell ran: all but the cd
\* that run put in front.
RanOfOriginal(i) ==
    IF self.cd = None THEN proc[i].ran ELSE SubSeq(proc[i].ran, 2, Len(proc[i].ran))

\* C9: without a working directory the shell is handed the resolved command
\* as it is; with one, when the cd fails nothing of the original command is
\* run and the invocation ends in FailedExitCode with a non-zero exit code.
C9_FailedCdStopsTheCommand ==
    \A i \in Calls :
        proc[i].state = "exited" =>
            /\ self.cd = None => proc[i].argv[3] = Effective(i, "command")[1]
            /\ (self.cd # None /\ proc[i].cdfailed) =>
                    /\ RanOfOriginal(i) = <<>>
                    /\ proc[i].returncode # 0
                    /\ pc[i] = "FailedExitCode"

\* Two invocations given the same arguments hand their subprocesses the same
\* command and the same environment.
SameArgsSameChild ==
    \A i, j \in Calls :
        (HasProc(i) /\ HasProc(j) /\ args[i] = args[j]) =>
            /\ proc[i].argv = proc[j].argv
            /\ proc[i].env = proc[j].env

\* C10: no step of any invocation changes the task's attributes, os.environ
\* or the mapping the caller passed; and two invocations with the same
\* arguments compose the same command and the same child environment.
C10_RunChangesNothingOutside ==
    [][ /\ self' = self
        /\ os_environ' = os_environ
        /\ \A i \in Calls : pc[i] # "Idle" => args'[i] = args[i]
        /\ SameArgsSameChild' ]_vars

C10_Witness ==
    \E i, j \in Calls :
        /\ i # j /\ args[i] = args[j]
        /\ proc[i].state = "exited" /\ proc[j].state = "exited"
        /\ self.cd # None /\ args[i].env # None /\ args[i].env # Some(EmptyEnv)
        /\ args[i].command = None

====
